---- MODULE Spec2Model ----
(***************************************************************************)
(* Model of the gnuplot output module of libsigrok (output/gnuplot.c):     *)
(* init() builds the per-output context and its header, data() converts a  *)
(* chunk of packed logic samples into text rows, event() releases the      *)
(* context at the end of the stream.                                       *)
(*                                                                         *)
(* The state is the o->internal pointer of every output handle together    *)
(* with what it points to, and the two function-static counters of data(). *)
(* The other variables are history: the last call with its arguments and   *)
(* result, and per handle what has happened in the session open on it.     *)
(***************************************************************************)
EXTENDS Integers, Sequences, FiniteSets, TLC

VARIABLES
    internal,     \* o->internal of every handle: the context it points to
    samplecount,  \* static uint64_t samplecount of data()
    old_sample,   \* static uint64_t old_sample of data()
    pc,           \* "run", or "aborted" once the process crashed or hung
    call,         \* history: the last call, its inputs and what it returned
    processed,    \* history: complete samples processed in the handle's session
    converted,    \* history: a data() call succeeded in the handle's session
    lastval,      \* history: decoded value of the session's last processed sample
    printed,      \* history: the counter of the last row the session handed back
    ended         \* history: SR_DF_END was applied to the handle since init

vars == <<internal, samplecount, old_sample, pc, call, processed, converted,
          lastval, printed, ended>>

----------------------------------------------------------------------------
(* Bounds of the model. *)

\* longest chunk handed to data(), in bytes
MaxLen == 3
\* data() is not called once samplecount would pass this value
MaxCount == 6
\* most out-of-bounds samples followed before the process is taken as dead
MaxOob == 1

\* the output handles (struct sr_output) of the process
Outs == {1}
\* byte values appearing in chunks
ByteVals == {0, 1}
\* values the bytes of `sample` that memcpy does not overwrite can hold
Garbage == {0, 1}
\* values the samples read past the end of the chunk can hold
OobVals == {0, 1}
\* lengths of the header text init() formats
HeaderLens == {3}
\* numbers of enabled probes of the devices opened
EnabledCounts == {0, 1, 9}
\* numbers of disabled probes of the devices opened
DisabledCounts == {1}

----------------------------------------------------------------------------
(* Values. *)

SR_OK == "SR_OK"
SR_ERR == "SR_ERR"
SR_ERR_MALLOC == "SR_ERR_MALLOC"
SR_ERR_ARG == "SR_ERR_ARG"
\* not a return value: the call never returned (crash or endless loop)
ABORT == "abort"

SR_DF_TRIGGER == "SR_DF_TRIGGER"
SR_DF_END == "SR_DF_END"
SR_DF_OTHER == "other"
EventTypes == {SR_DF_TRIGGER, SR_DF_END, SR_DF_OTHER}

\* sizeof(uint64_t), the size of `sample`
SampleBytes == 8

\* SR_MAX_NUM_PROBES of libsigrok.h: probelist has one entry more than this
SR_MAX_NUM_PROBES == 64

\* A uint64_t is held as its SampleBytes bytes, least significant first.
Word(v) == [b \in 1..SampleBytes |-> IF b = 1 THEN v ELSE 0]

\* no sample yet (history)
NoSample == <<>>

Max(a, b) == IF a >= b THEN a ELSE b

RECURSIVE Pow(_, _)
Pow(b, e) == IF e = 0 THEN 1 ELSE b * Pow(b, e - 1)

\* All sequences over S of length 0..n.
RECURSIVE SeqsUpTo(_, _)
SeqsUpTo(S, n) ==
    IF n = 0 THEN {<<>>}
    ELSE LET shorter == SeqsUpTo(S, n - 1)
         IN shorter \cup {Append(s, x) : s \in {t \in shorter : Len(t) = n - 1}, x \in S}

\* o->internal == NULL
NULL == [st |-> "null", num_enabled_probes |-> 0, unitsize |-> 0, header |-> 0]

\* struct context behind o->internal.  st is "live" for an allocated context
\* and "freed" for a pointer to a context that was g_free'd (the fields then
\* are what the freed memory last held).  header is strlen(ctx->header), or 0
\* for ctx->header == NULL.
Context(st, n, u, h) ==
    [st |-> st, num_enabled_probes |-> n, unitsize |-> u, header |-> h]

\* The probe list of a device: one enabled flag per probe, in list order.
ProbeList(e, d) == [i \in 1..(e + d) |-> i > d]
ProbeLists == {ProbeList(e, d) : e \in EnabledCounts, d \in DisabledCounts}

NoOut == [header |-> 0, rows |-> <<>>]
NoPre == [processed |-> 0, converted |-> FALSE, header |-> 0, lastval |-> NoSample,
          ended |-> FALSE, samplecount |-> 0, old_sample |-> Word(0)]

\* The history of a call: the function, its handle (0 for a NULL o), its
\* return value, its arguments, whether *data_out and *length_out were
\* assigned (returned) and to what (out, length_out), the size of the buffer
\* data() allocated and the extent of its stores into it (outsize, written),
\* the complete samples of the chunk, the passes the loop made and the
\* samples it read past the end of the chunk (nsamples, passes, oob),
\* whether old_sample was the decoded sample after every pass (tracked),
\* whether a freed context was dereferenced, the allocations
\* it left unreachable (leak), the enabled probes of the device init() was
\* called for (enabled), and the history of the handle before the call (pre).
\* data_in is recorded for the calls that read the chunk.
NoCall == [fn |-> "none", o |-> 0, ret |-> SR_OK, arg |-> "", data_in |-> <<>>,
           length_in |-> 0, garbage |-> 0, returned |-> FALSE, out |-> NoOut,
           length_out |-> 0, outsize |-> 0, written |-> 0, nsamples |-> 0,
           passes |-> 0, tracked |-> TRUE, unitsize |-> 0, oob |-> 0, freed_access |-> FALSE, leak |-> 0,
           enabled |-> 0, pre |-> NoPre]

Pre(o) == [processed |-> processed[o], converted |-> converted[o],
           header |-> internal[o].header, lastval |-> lastval[o],
           ended |-> ended[o], samplecount |-> samplecount, old_sample |-> old_sample]

----------------------------------------------------------------------------
(* init() *)

\* for (l = o->sdi->probes; l; l = l->next) if (probe->enabled) num_enabled_probes++
RECURSIVE CountEnabled(_, _)
CountEnabled(probes, i) ==
    IF i > Len(probes) THEN 0
    ELSE (IF probes[i] THEN 1 ELSE 0) + CountEnabled(probes, i + 1)

\* (the mistake of rounding down)
UnitSizeFloor(n) == n \div 8

\* ctx->unitsize = (ctx->num_enabled_probes + 7) / 8
UnitSize(n) == (n + 7) \div 8

\* The points at which init() can fail once its arguments are accepted, and
\* "deref" for the read of *samplerate through the uninitialized pointer
\* ending the process; "none" is the run to `return 0`.  "overflow" is the
\* process ending on the stores past the end of probelist (and of the
\* context) that a device with more than SR_MAX_NUM_PROBES enabled probes
\* leads to; with such a device the other outcomes stay possible.
InitFails == {"none", "ctx_malloc", "header_malloc", "samplerate_string",
              "period_string", "snprintf", "deref", "overflow"}

\* What o->internal is left as when init() returns after `o->internal = ctx`
\* having failed: ctx and its header were g_free'd, the pointer was not reset.
\* The fields stand for what a later read of the freed memory finds.
InitAbandoned(ctx) == [ctx EXCEPT !.st = "freed"]

\* init() with o, o->sdi or o->sdi->driver NULL
init_arg(which) ==
    /\ pc = "run"
    /\ call' = [NoCall EXCEPT !.fn = "init", !.ret = SR_ERR_ARG, !.arg = which]
    /\ UNCHANGED <<internal, samplecount, old_sample, pc, processed, converted,
                   lastval, printed, ended>>

\* init() on handle o for a device with the given probe list; has_hwcap is
\* sr_dev_has_hwcap(SR_HWCAP_SAMPLERATE), hlen the length of the header
\* snprintf produces, fail the point of failure.
init(o, probes, has_hwcap, hlen, fail) ==
    LET n == CountEnabled(probes, 1)
        ctx == Context("live", n, UnitSize(n), hlen)
        rec == [NoCall EXCEPT !.fn = "init", !.o = o, !.arg = fail, !.pre = Pre(o),
                              !.enabled = IF fail \in {"ctx_malloc", "header_malloc"}
                                          THEN 0 ELSE n]
    IN
    /\ pc = "run"
    /\ internal[o].st # "live"
    /\ fail = "samplerate_string" => has_hwcap
    /\ fail = "deref" => ~has_hwcap
    /\ fail = "overflow" => n > SR_MAX_NUM_PROBES
    /\ IF fail \in {"ctx_malloc", "header_malloc"}
       THEN /\ call' = [rec EXCEPT !.ret = SR_ERR_MALLOC]
            /\ UNCHANGED <<internal, pc, processed, converted, lastval, printed, ended>>
       ELSE /\ processed' = [processed EXCEPT ![o] = 0]
            /\ converted' = [converted EXCEPT ![o] = FALSE]
            /\ lastval' = [lastval EXCEPT ![o] = NoSample]
            /\ printed' = [printed EXCEPT ![o] = -1]
            /\ ended' = [ended EXCEPT ![o] = FALSE]
            /\ IF fail \in {"deref", "overflow"}
               THEN /\ internal' = [internal EXCEPT ![o] = ctx]
                    /\ pc' = "aborted"
                    /\ call' = [rec EXCEPT !.ret = ABORT]
               ELSE IF fail = "none"
               THEN /\ internal' = [internal EXCEPT ![o] = ctx]
                    /\ call' = [rec EXCEPT !.ret = SR_OK]
                    /\ UNCHANGED pc
               ELSE /\ internal' = [internal EXCEPT ![o] = InitAbandoned(ctx)]
                    /\ call' = [rec EXCEPT !.ret = SR_ERR]
                    /\ UNCHANGED pc
    /\ UNCHANGED <<samplecount, old_sample>>

----------------------------------------------------------------------------
(* event() *)

\* (the mistake of freeing the context and keeping the pointer to it)
EventEndDangling(ctx) == IF ctx.st = "null" THEN ctx ELSE [ctx EXCEPT !.st = "freed"]

\* case SR_DF_END: g_free(o->internal); o->internal = NULL;
EventEnd(ctx) == NULL

\* (the mistake of a case without its break, running on into SR_DF_END)
EventFallsThrough(ctx) == NULL

\* case SR_DF_TRIGGER: break; and default: sr_err(...); break;
EventOther(ctx) == ctx

\* The allocations event() leaves unreachable and not freed: g_free releases
\* the context alone, not the header text it still points to.
EventLeak(ctx, event_type) ==
    IF event_type = SR_DF_END /\ ctx.st = "live" /\ ctx.header # 0 THEN 1 ELSE 0

\* event() with o, data_out or length_out NULL
event_arg(which) ==
    /\ pc = "run"
    /\ call' = [NoCall EXCEPT !.fn = "event", !.ret = SR_ERR_ARG, !.arg = which]
    /\ UNCHANGED <<internal, samplecount, old_sample, pc, processed, converted,
                   lastval, printed, ended>>

\* event() on handle o.  g_free of a context that init() already freed is a
\* double free: the allocator aborts the process (crash) or lets it pass.
event(o, event_type, crash) ==
    LET ctx == internal[o]
        rec == [NoCall EXCEPT !.fn = "event", !.o = o, !.arg = event_type,
                              !.pre = Pre(o),
                              !.freed_access = (event_type = SR_DF_END /\ ctx.st = "freed")]
    IN
    /\ pc = "run"
    /\ crash => (event_type = SR_DF_END /\ ctx.st = "freed")
    /\ IF crash
       THEN /\ pc' = "aborted"
            /\ call' = [rec EXCEPT !.ret = ABORT]
            /\ UNCHANGED <<internal, ended, processed, converted, lastval, printed>>
       ELSE /\ call' = [rec EXCEPT !.ret = SR_OK, !.returned = TRUE,
                                   !.out = NoOut, !.length_out = 0,
                                   !.leak = EventLeak(ctx, event_type)]
            /\ UNCHANGED pc
            /\ IF event_type = SR_DF_END
               THEN /\ internal' = [internal EXCEPT ![o] = EventEnd(ctx)]
                    /\ ended' = [ended EXCEPT ![o] = TRUE]
                    /\ processed' = [processed EXCEPT ![o] = 0]
                    /\ converted' = [converted EXCEPT ![o] = FALSE]
                    /\ lastval' = [lastval EXCEPT ![o] = NoSample]
                    /\ printed' = [printed EXCEPT ![o] = -1]
               ELSE /\ internal' = [internal EXCEPT ![o] = EventOther(ctx)]
                    /\ UNCHANGED <<ended, processed, converted, lastval, printed>>
    /\ UNCHANGED <<samplecount, old_sample>>

----------------------------------------------------------------------------
(* data() *)

\* sprintf("%" PRIu64, n): the decimal digits of n, most significant first
RECURSIVE ToDecimal(_)
ToDecimal(n) == IF n < 10 THEN <<n>> ELSE Append(ToDecimal(n \div 10), n % 10)

\* The number a reader of the output takes from the digits d of a counter:
\* acc is the value of the digits before the i-th.
RECURSIVE DecimalValue(_, _, _)
DecimalValue(d, acc, i) ==
    IF i > Len(d) THEN acc ELSE DecimalValue(d, 10 * acc + d[i], i + 1)

\* The unitsize bytes at data_in + i (i counted from 0) as the low bytes of a
\* little-endian integer, the bytes above them 0.
DecodeLE(data_in, i, u) ==
    [b \in 1..SampleBytes |-> IF b <= u THEN data_in[i + b] ELSE 0]

\* memcpy(&sample, data_in + i, ctx->unitsize): `sample` is declared without
\* an initializer, so the bytes above the unitsize copied ones hold whatever
\* the stack held when unitsize < sizeof(uint64_t): g in the lowest of them.
MemcpySample(data_in, i, u, g) ==
    [b \in 1..SampleBytes |->
        IF b <= u THEN data_in[i + b] ELSE IF b = u + 1 THEN g ELSE 0]

\* the powers of 2 below 256
Pow2 == <<1, 2, 4, 8, 16, 32, 64, 128>>

\* bit k (0..63) of a uint64_t
Bit(sample, k) == (sample[(k \div 8) + 1] \div Pow2[(k % 8) + 1]) % 2

\* Bits 31..62 of `sample` as the int that "%d" prints: what is left of
\* (sample & 0xFFFFFFFF80000000) >> 31 in the 32 bits of curbit.
RECURSIVE HighBits(_, _)
HighBits(sample, k) ==
    IF k = 62
    THEN IF Bit(sample, 62) = 1 THEN (0 - Pow(2, 30)) - Pow(2, 30) ELSE 0
    ELSE (IF Bit(sample, k) = 1 THEN Pow(2, k - 31) ELSE 0) + HighBits(sample, k + 1)

\* What the builds make of `1 << p`, an int shift, once p reaches the width
\* of int: the count taken modulo 32 (and modulo 64 for the uint64_t shift
\* right), or a result of 0.  1 << 31 is INT_MIN in both, which the cast to
\* uint64_t extends to bits 31..63.
ShiftModes == {"wrap", "zero"}

\* curbit = (sample & ((uint64_t) (1 << p))) >> p
CurBit(sample, p, shl) ==
    IF p < 31 THEN Bit(sample, p)
    ELSE IF p = 31 THEN HighBits(sample, 31)
    ELSE IF shl = "zero" THEN 0
    ELSE IF p % 32 = 31 THEN (IF p % 64 = 63 THEN Bit(sample, 63) ELSE HighBits(sample, 31))
    ELSE IF p % 64 = p % 32 THEN Bit(sample, p % 32)
    ELSE 0

\* One emitted row: the counter's digits, a tab, "%d " per enabled probe, a
\* newline.  idx (history) is the position in the chunk of the sample shown.
Row(counter, sample, n, idx, shl) ==
    [counter |-> ToDecimal(counter),
     bits |-> [p \in 1..n |-> CurBit(sample, p - 1, shl)],
     idx |-> idx]

\* strlen of what "%d" prints for v
IntLen(v) ==
    IF v >= 0 THEN Len(ToDecimal(v))
    ELSE IF v + 1 = 0 - (Pow(2, 30) - 1) - Pow(2, 30) THEN 11
    ELSE 1 + Len(ToDecimal(0 - v))

RECURSIVE BitsLen(_, _)
BitsLen(bits, p) == IF p > Len(bits) THEN 0 ELSE IntLen(bits[p]) + 1 + BitsLen(bits, p + 1)

\* strlen of a row
RowLen(r) == Len(r.counter) + 1 + BitsLen(r.bits, 1) + 1

RECURSIVE RowsLen(_, _)
RowsLen(rows, j) == IF j > Len(rows) THEN 0 ELSE RowLen(rows[j]) + RowsLen(rows, j + 1)

\* if (samplecount++ != 0 && sample == old_sample): the value tested is the
\* one before the increment
SkipTest(tested, sample, old) == tested # 0 /\ sample = old

\* if (i != (length_in - ctx->unitsize)) continue;
IsLast(i, length_in, u) == i = length_in - u

\* sprintf(c, "%" PRIu64 "\t", samplecount++): the value printed, given the
\* counter as the dedup test left it
Printed(sc) == sc

\* (the mistake of counting down in the sprintf: samplecount--)
AfterPrintDown(sc) == sc - 1

\* samplecount after that second increment
AfterPrint(sc) == sc + 1

\* One pass of the loop body for `sample`; is_last is i == length_in - unitsize.
\* st is [samplecount, old_sample, rows, passes, tracked], the last two
\* history: the passes made, and whether old_sample was the decoded sample
\* after each of them.
LoopBody(st, sample, is_last, n, idx, shl) ==
    LET sc == st.samplecount + 1
    IN IF SkipTest(st.samplecount, sample, st.old_sample) /\ ~is_last
       THEN [st EXCEPT !.samplecount = sc, !.passes = @ + 1]
       ELSE [samplecount |-> AfterPrint(sc),
             old_sample |-> sample,
             passes |-> st.passes + 1,
             tracked |-> st.tracked,
             rows |-> Append(st.rows, Row(Printed(sc), sample, n, idx, shl))]

\* for (i = 0; i <= length_in - ctx->unitsize; i += ctx->unitsize), for
\* length_in >= unitsize (the subtraction does not wrap)
RECURSIVE SampleLoop(_, _, _, _, _, _, _)
SampleLoop(data_in, u, n, g, shl, i, st) ==
    IF i > Len(data_in) - u THEN st
    ELSE LET after == LoopBody(st, MemcpySample(data_in, i, u, g),
                               IsLast(i, Len(data_in), u), n, i \div u, shl)
         IN SampleLoop(data_in, u, n, g, shl, i + u,
                       [after EXCEPT !.tracked =
                           @ /\ after.old_sample = DecodeLE(data_in, i, u)])

\* The same loop for length_in < unitsize: length_in - unitsize wraps to a
\* value no i reaches, so the loop does not end and reads past the chunk;
\* samples are the values it finds there, followed up to Len(samples) passes.
RECURSIVE OobLoop(_, _, _, _, _)
OobLoop(samples, j, n, shl, st) ==
    IF j > Len(samples) THEN st
    ELSE OobLoop(samples, j + 1, n, shl,
                 LoopBody(st, Word(samples[j]), FALSE, n, j - 1, shl))

\* max_linelen = 16 + ctx->num_enabled_probes * 2
MaxLineLen(n) == 16 + n * 2

\* outsize = length_in / ctx->unitsize * max_linelen (+ strlen(ctx->header))
OutSize(length_in, ctx) ==
    (length_in \div ctx.unitsize) * MaxLineLen(ctx.num_enabled_probes) + ctx.header

\* g_try_malloc0(outsize) returns NULL for outsize 0 and when out of memory
MallocFails(outsize, oom) == outsize = 0 \/ oom

\* strncpy((char *)outbuf, ctx->header, outsize): the bytes of the header
\* that reach the buffer
Strncpy(hlen, outsize) == IF hlen < outsize THEN hlen ELSE outsize

\* (the mistake of leaving the header in place once it is copied)
HeaderKept(ctx) == ctx

\* g_free(ctx->header); ctx->header = NULL;
HeaderTaken(ctx) == [ctx EXCEPT !.header = 0]

\* The extent of the stores into outbuf: strncpy fills all outsize bytes when
\* there is a header (outbuf[0] = 0 is the one store otherwise), and every
\* sprintf stores its text and a terminator at the end of the text so far.
Written(outsize, header, rows) ==
    Max(IF header > 0 THEN outsize ELSE 1,
        IF rows = <<>> THEN 0 ELSE header + RowsLen(rows, 1) + 1)

\* (the mistake of releasing the header before the checks are through)
DataFailHeaderGone(rec, code) ==
    /\ call' = [rec EXCEPT !.ret = code]
    /\ internal' = [o \in DOMAIN internal |->
                      IF o = rec.o THEN [internal[o] EXCEPT !.header = 0]
                      ELSE internal[o]]
    /\ UNCHANGED <<samplecount, old_sample, pc, processed, converted, lastval, printed, ended>>

\* data() returning `code` from one of its checks, nothing else done
DataFail(rec, code) ==
    /\ call' = [rec EXCEPT !.ret = code]
    /\ UNCHANGED <<internal, samplecount, old_sample, pc, processed, converted,
                   lastval, printed, ended>>

\* data() with o, data_in, data_out or length_out NULL
data_arg(o, which) ==
    /\ pc = "run"
    /\ which = "o" <=> o = 0
    /\ DataFail([NoCall EXCEPT !.fn = "data", !.o = o, !.arg = which,
                               !.pre = IF o = 0 THEN NoPre ELSE Pre(o)],
                SR_ERR_ARG)

\* data() on handle o with the chunk data_in.  g is what the upper bytes of
\* `sample` hold, shl what the build makes of the wide shifts, oom whether
\* the allocator is out of memory, stale_crash whether reading a freed
\* context ends the process, oob_samples what the loop reads past the end of
\* a chunk shorter than one sample.
data(o, data_in, g, shl, oom, stale_crash, oob_samples) ==
    LET ctx == internal[o]
        length_in == Len(data_in)
        n == ctx.num_enabled_probes
        u == ctx.unitsize
        rec == [NoCall EXCEPT !.fn = "data", !.o = o, !.pre = Pre(o),
                              !.unitsize = u, !.freed_access = (ctx.st = "freed")]
        st0 == [samplecount |-> samplecount, old_sample |-> old_sample, rows |-> <<>>,
                passes |-> 0, tracked |-> TRUE]
    IN
    /\ pc = "run"
    /\ IF ctx.st = "null" THEN DataFail(rec, SR_ERR_ARG)
       ELSE IF stale_crash \/ u = 0
       THEN \* a fault on the freed context, or the division by unitsize 0
            /\ pc' = "aborted"
            /\ call' = [rec EXCEPT !.ret = ABORT]
            /\ UNCHANGED <<internal, samplecount, old_sample, processed,
                           converted, lastval, printed, ended>>
       ELSE LET outsize == OutSize(length_in, ctx)
                k == length_in \div u
            IN
            IF MallocFails(outsize, oom)
            THEN DataFail([rec EXCEPT !.outsize = outsize, !.length_in = length_in],
                          SR_ERR_MALLOC)
            ELSE IF length_in < u
            THEN \E st \in {OobLoop(oob_samples, 1, n, shl, st0)} :
                    /\ st.samplecount <= MaxCount
                    /\ pc' = "aborted"
                    /\ call' = [rec EXCEPT
                          !.ret = ABORT, !.outsize = outsize,
                          !.length_in = length_in, !.data_in = data_in,
                          !.out = [header |-> Strncpy(ctx.header, outsize), rows |-> st.rows],
                          !.written = Written(outsize, ctx.header, st.rows),
                          !.passes = st.passes, !.oob = Len(oob_samples)]
                    /\ internal' = [internal EXCEPT ![o] = HeaderTaken(ctx)]
                    /\ samplecount' = st.samplecount
                    /\ old_sample' = st.old_sample
                    /\ UNCHANGED <<processed, converted, lastval, printed, ended>>
            ELSE \E st \in {SampleLoop(data_in, u, n, g, shl, 0, st0)} :
                    /\ st.samplecount <= MaxCount
                    /\ call' = [rec EXCEPT
                          !.ret = SR_OK, !.returned = TRUE, !.garbage = g,
                          !.outsize = outsize, !.nsamples = k, !.passes = st.passes,
                          !.tracked = st.tracked,
                          !.length_in = length_in, !.data_in = data_in,
                          !.out = [header |-> Strncpy(ctx.header, outsize), rows |-> st.rows],
                          !.length_out = ctx.header + RowsLen(st.rows, 1),
                          !.written = Written(outsize, ctx.header, st.rows)]
                    /\ internal' = [internal EXCEPT ![o] = HeaderTaken(ctx)]
                    /\ samplecount' = st.samplecount
                    /\ old_sample' = st.old_sample
                    /\ processed' = [processed EXCEPT ![o] = @ + k]
                    /\ converted' = [converted EXCEPT ![o] = TRUE]
                    /\ lastval' = [lastval EXCEPT ![o] = DecodeLE(data_in, (k - 1) * u, u)]
                    /\ printed' = [printed EXCEPT ![o] =
                          IF st.rows = <<>> THEN @
                          ELSE DecimalValue(st.rows[Len(st.rows)].counter, 0, 1)]
                    /\ UNCHANGED <<pc, ended>>

----------------------------------------------------------------------------
(* The process: the host calls the three entry points in any order, on any  *)
(* handle, except that it opens a handle only when no session is live on it.*)
(* A host that keeps to the lifecycle (open, convert any number of times,   *)
(* end of stream) does not go on using a handle whose init() failed.        *)

Chunks == SeqsUpTo(ByteVals, MaxLen)
OobSeqs == SeqsUpTo(OobVals, MaxOob) \ {<<>>}

\* What the surroundings of a data() call can be, for the path the call takes:
\* the choices a path does not read are fixed, not enumerated.
DataEnv(ctx, data_in) ==
    LET E(g, shl, oom, stale_crash, oob_samples) ==
            [g |-> g, shl |-> shl, oom |-> oom, stale_crash |-> stale_crash,
             oob_samples |-> oob_samples]
        quiet == E(0, "wrap", FALSE, FALSE, <<>>)
        shifts == IF ctx.num_enabled_probes > 32 THEN ShiftModes ELSE {"wrap"}
        here == IF ctx.unitsize = 0 THEN {quiet}
                ELSE IF OutSize(Len(data_in), ctx) = 0 THEN {quiet}
                ELSE IF Len(data_in) < ctx.unitsize
                THEN {E(0, "wrap", TRUE, FALSE, <<>>)}
                       \cup {E(0, shl, FALSE, FALSE, s) : shl \in shifts, s \in OobSeqs}
                ELSE {E(0, "wrap", TRUE, FALSE, <<>>)}
                       \cup {E(g, shl, FALSE, FALSE, <<>>) :
                             shl \in shifts,
                             g \in IF ctx.unitsize < SampleBytes THEN Garbage ELSE {0}}
    IN IF ctx.st = "null" THEN {quiet}
       ELSE IF ctx.st = "freed" THEN here \cup {E(0, "wrap", FALSE, TRUE, <<>>)}
       ELSE here

InitFor(outs) ==
    /\ internal = [o \in outs |-> NULL]
    /\ samplecount = 0
    /\ old_sample = Word(0)
    /\ pc = "run"
    /\ call = NoCall
    /\ processed = [o \in outs |-> 0]
    /\ converted = [o \in outs |-> FALSE]
    /\ lastval = [o \in outs |-> NoSample]
    /\ printed = [o \in outs |-> -1]
    /\ ended = [o \in outs |-> FALSE]

Init == InitFor(Outs)

\* strict: the host makes no data() or event() call on a handle whose init()
\* failed; lists are the probe lists of the devices, chunks the chunks fed.
NextFor(strict, lists, chunks) ==
    \/ \E which \in {"o", "sdi", "driver"} : init_arg(which)
    \/ \E o \in DOMAIN internal, probes \in lists, has_hwcap \in BOOLEAN,
          hlen \in HeaderLens, fail \in InitFails :
            init(o, probes, has_hwcap, hlen, fail)
    \/ \E which \in {"o", "data_out", "length_out"} : event_arg(which)
    \/ \E o \in DOMAIN internal, event_type \in EventTypes, crash \in BOOLEAN :
            /\ strict => internal[o].st # "freed"
            /\ event(o, event_type, crash)
    \/ \E o \in DOMAIN internal \cup {0},
          which \in {"o", "data_in", "data_out", "length_out"} :
            /\ (strict /\ o # 0) => internal[o].st # "freed"
            /\ data_arg(o, which)
    \/ \E o \in DOMAIN internal, data_in \in chunks :
          \E env \in DataEnv(internal[o], data_in) :
            /\ strict => internal[o].st # "freed"
            /\ data(o, data_in, env.g, env.shl, env.oom, env.stale_crash, env.oob_samples)

NextOf(strict) == NextFor(strict, ProbeLists, Chunks)

Next == NextOf(FALSE)

Spec == Init /\ [][Next]_vars

LifecycleNext == NextOf(TRUE)

\* the process under a host that keeps to the lifecycle
LifecycleSpec == Init /\ [][LifecycleNext]_vars

\* Devices with many probes: the numbers of enabled probes around the widths
\* of int and of uint64_t and around SR_MAX_NUM_PROBES, fed chunks of one
\* sample that is 0 or has its highest byte set.
WideCounts == {8, 31, 33, SR_MAX_NUM_PROBES, SR_MAX_NUM_PROBES + 1}
WideLists == {ProbeList(e, d) : e \in WideCounts, d \in DisabledCounts}
WideLens == {UnitSize(e) : e \in WideCounts} \cap (1..SampleBytes)
TopByte(l) == {[b \in 1..l |-> IF b = h THEN 1 ELSE 0] : h \in {0, l}}
WideChunks == UNION {TopByte(l) : l \in WideLens}

WideNext == NextFor(TRUE, WideLists, WideChunks)

\* the process under a host that keeps to the lifecycle, with such devices
WideSpec == Init /\ [][WideNext]_vars

\* Two output handles in one process, each for a device with one enabled
\* probe, fed chunks of one sample.
PairOuts == {1, 2}
PairLists == {ProbeList(1, d) : d \in DisabledCounts}
PairChunks == {<<v>> : v \in ByteVals}

PairInit == InitFor(PairOuts)

PairNext == NextFor(TRUE, PairLists, PairChunks)

\* the process under a host that keeps to the lifecycle on two handles
PairSpec == PairInit /\ [][PairNext]_vars

----------------------------------------------------------------------------
(* Properties. *)

\* the last call was a data() call that returned SR_OK on an open session
OkData == call.fn = "data" /\ call.ret = SR_OK /\ ~call.freed_access

ErrorCodes == {SR_ERR, SR_ERR_ARG, SR_ERR_MALLOC}

\* the positions in the chunk of the samples the last call emitted rows for
RowIdx == {call.out.rows[j].idx : j \in 1..Len(call.out.rows)}

\* decoded value of the j-th complete sample (from 0) of the last call's chunk
Value(j) == DecodeLE(call.data_in, j * call.unitsize, call.unitsize)

\* decoded value of the sample the session processed before that one
Prev(j) == IF j = 0 THEN call.pre.lastval ELSE Value(j - 1)

\* C1: the counter printed at the start of an emitted row is the 0-based
\* position of its sample among the complete samples the session has
\* processed, emitted or skipped; the first row of a session carries 0.
C1_CounterIsPosition ==
    OkData =>
        \A j \in 1..Len(call.out.rows) :
            call.out.rows[j].counter
                = ToDecimal(call.pre.processed + call.out.rows[j].idx)

\* C2: once a session has processed N complete samples, the sample counter
\* is N, however the stream was cut into chunks and whatever was emitted.
C2_CounterIsProcessed ==
    OkData => samplecount = processed[call.o]

\* C3: the first sample a session converts is emitted as a row whatever its
\* value, also in a session opened after an earlier one converted samples.
C3_FirstSampleEmitted ==
    (OkData /\ call.pre.processed = 0 /\ call.nsamples >= 1) => 0 \in RowIdx

\* C4: the last complete sample of every chunk holding at least one complete
\* sample is emitted as a row, with or without a trailing partial sample.
C4_LastSampleEmitted ==
    (OkData /\ call.nsamples >= 1) => (call.nsamples - 1) \in RowIdx

\* C5: a complete sample that is neither the first of the session nor the
\* last of its chunk is emitted exactly when its decoded value differs from
\* that of the sample the session processed just before it, which may
\* belong to an earlier chunk.
C5_DedupExact ==
    OkData =>
        \A j \in 0..(call.nsamples - 1) :
            (~(call.pre.processed = 0 /\ j = 0) /\ j # call.nsamples - 1)
                => (j \in RowIdx <=> Value(j) # Prev(j))

\* C6: the header is in the output of the first successful data() call of a
\* session and of no later one: a live session holds the header exactly
\* until a data() call has succeeded, a successful call's output starts with
\* the whole header when it is the first and has none otherwise, and a
\* failed call leaves the header pending.
C6_HeaderOnce ==
    pc = "run" =>
        /\ \A o \in DOMAIN internal :
              internal[o].st = "live" => (converted[o] <=> internal[o].header = 0)
        /\ OkData =>
              /\ call.out.header = (IF call.pre.converted THEN 0 ELSE call.pre.header)
              /\ ~call.pre.converted => call.out.header > 0
              /\ call.length_out = call.out.header + RowsLen(call.out.rows, 1)
        /\ (call.fn = "data" /\ call.ret \in ErrorCodes /\ call.o # 0)
              => (internal[call.o].header = call.pre.header /\ call.out = NoOut)

\* a later successful call of a session: rows without the header
C6_Witness ==
    /\ OkData /\ call.pre.converted /\ internal[call.o].st = "live"
    /\ call.out.header = 0 /\ Len(call.out.rows) > 0

\* C7: after SR_DF_END on a handle every data() call on it returns an error,
\* hands back no output and touches no released state, through any further
\* data() and event() calls; the handle keeps no pointer to the context.
C7_AfterEnd ==
    /\ \A o \in DOMAIN internal : ended[o] => internal[o] = NULL
    /\ (call.fn = "data" /\ call.o # 0 /\ call.pre.ended) =>
          /\ call.ret = SR_ERR_ARG
          /\ ~call.returned /\ call.out = NoOut /\ call.written = 0
          /\ ~call.freed_access
          /\ samplecount = call.pre.samplecount
          /\ old_sample = call.pre.old_sample
          /\ pc = "run"

\* a data() call on a handle after its SR_DF_END
C7_Witness ==
    call.fn = "data" /\ call.o # 0 /\ call.pre.ended /\ call.ret = SR_ERR_ARG
      /\ call.arg = ""

\* C8: when init() fails after it has started to build the session, the
\* handle holds no session state afterwards, and a later data() call on it
\* does not work on freed state.
C8_FailedInitClean ==
    /\ (call.fn = "init" /\ call.ret = SR_ERR) => internal[call.o] = NULL
    /\ call.fn = "data" => ~call.freed_access

\* C9: a data() call that returns an error leaves the context, the sample
\* counter and the last sample as they were and hands back no buffer.
C9_ErrorLeavesState ==
    [][(call'.fn = "data" /\ call'.ret \in ErrorCodes) =>
          /\ internal' = internal
          /\ samplecount' = samplecount
          /\ old_sample' = old_sample
          /\ ~call'.returned /\ call'.out = NoOut]_vars

\* a data() call failed for want of memory with the header still pending
C9_Witness ==
    /\ call.fn = "data" /\ call.ret = SR_ERR_MALLOC /\ call.outsize > 0
    /\ call.pre.header > 0 /\ internal[call.o].header = call.pre.header

\* C10: the buffer data() allocates, k * (16 + 2 * E) bytes plus the length
\* of a pending header, holds everything the call stores into it, for k = 0
\* and for the first call with the header pending too.
C10_BufferHolds ==
    (call.fn = "data" /\ call.outsize > 0 /\ ~call.freed_access)
        => call.written <= call.outsize

\* C11: for a chunk of any length L >= 0 and unitsize u >= 1 the sample loop
\* of data() ends and reads no sample that is not wholly inside the chunk:
\* it makes exactly L \div u passes, none for a chunk shorter than a sample.
C11_LoopInBounds ==
    (call.fn = "data" /\ call.unitsize >= 1 /\ ~call.freed_access) =>
        /\ call.ret # ABORT
        /\ call.oob = 0
        /\ call.passes = (IF call.ret = SR_OK THEN call.length_in \div call.unitsize ELSE 0)

\* C12: init() returns an error and leaves no session on the handle whenever
\* the device has more than SR_MAX_NUM_PROBES enabled probes, and no session
\* has more enabled probes than that.
C12_ProbeLimit ==
    /\ (call.fn = "init" /\ call.enabled > SR_MAX_NUM_PROBES) =>
          (call.ret \in ErrorCodes /\ internal[call.o] = NULL)
    /\ \A o \in DOMAIN internal :
          internal[o].st = "live" => internal[o].num_enabled_probes <= SR_MAX_NUM_PROBES

\* C13: sessions are independent.  The sample counter of a session is 0 when
\* init() has opened it, and a data() call on one handle changes neither the
\* counter nor the last sample that a session open on another handle goes on
\* with.
C13_SessionsIndependent ==
    /\ (call.fn = "init" /\ call.ret = SR_OK) => samplecount = 0
    /\ (call.fn = "data" /\ \E o \in DOMAIN internal \ {call.o} : internal[o].st = "live")
          => (samplecount = call.pre.samplecount /\ old_sample = call.pre.old_sample)

\* C14: event() with SR_DF_TRIGGER or an event type it does not know returns
\* SR_OK and leaves the context, the counter and the last sample as they
\* were; event() with any event type, SR_DF_END too, hands back no buffer and
\* a length of 0.  (g_free of a context that a failed init() had freed
\* already is left to C8.)
C14_EventFrame ==
    [][(call'.fn = "event" /\ call'.o # 0) =>
          /\ call'.arg \in {SR_DF_TRIGGER, SR_DF_OTHER} =>
                /\ call'.ret = SR_OK
                /\ internal' = internal
                /\ samplecount' = samplecount
                /\ old_sample' = old_sample
                /\ pc' = pc
          /\ ~call'.freed_access =>
                /\ call'.ret = SR_OK
                /\ call'.returned /\ call'.out = NoOut /\ call'.length_out = 0]_vars

\* SR_DF_TRIGGER in a session that has converted samples, which stays open
C14_Witness ==
    /\ call.fn = "event" /\ call.arg = SR_DF_TRIGGER /\ call.ret = SR_OK
    /\ call.pre.converted /\ internal[call.o].st = "live"

\* C15: every row data() emits has one column per enabled probe, and for a
\* device with 1 to SR_MAX_NUM_PROBES enabled probes column p (from 0) is bit
\* p of the unitsize bytes of the sample, as the one character 0 or 1.
C15_BitColumns ==
    (OkData /\ internal[call.o].num_enabled_probes \in 1..SR_MAX_NUM_PROBES) =>
        \A j \in 1..Len(call.out.rows) :
            LET r == call.out.rows[j]
            IN /\ Len(r.bits) = internal[call.o].num_enabled_probes
               /\ \A p \in 0..(Len(r.bits) - 1) :
                     /\ r.bits[p + 1] \in {0, 1}
                     /\ r.bits[p + 1] = Bit(Value(r.idx), p)

\* the least number of bytes that hold n bits
Ceil8(n) == CHOOSE u \in 0..n : 8 * u >= n /\ 8 * (u - 1) < n

\* a call that is neither init() nor event() with SR_DF_END
KeepsSession(c) == c.fn = "data" \/ (c.fn = "event" /\ c.arg # SR_DF_END)

\* C16: a live context with E enabled probes, 1 <= E <= SR_MAX_NUM_PROBES,
\* has unitsize = ceil(E / 8) in every state, and no data() call and no
\* event() call other than SR_DF_END changes its unitsize or its number of
\* enabled probes (or ends it).
C16_UnitSizeFixed ==
    [][\A o \in DOMAIN internal :
          /\ (internal'[o].st = "live"
                 /\ internal'[o].num_enabled_probes \in 1..SR_MAX_NUM_PROBES)
                => internal'[o].unitsize = Ceil8(internal'[o].num_enabled_probes)
          /\ (internal[o].st = "live" /\ KeepsSession(call'))
                => /\ internal'[o].st = "live"
                   /\ internal'[o].unitsize = internal[o].unitsize
                   /\ internal'[o].num_enabled_probes = internal[o].num_enabled_probes]_vars

\* a session whose probes do not fill its bytes, after a data() call on it
C16_Witness ==
    /\ OkData /\ internal[call.o].st = "live"
    /\ internal[call.o].unitsize > 1
    /\ internal[call.o].num_enabled_probes % 8 # 0

\* C17: after every data() call that processed at least one complete sample
\* old_sample is the decoded value of the last complete sample of the chunk,
\* and after every pass of the loop it is the decoded value of the sample of
\* that pass, emitted or skipped: assigning it on the emitting path only
\* comes to the same as assigning it after every sample.
C17_LastSampleTracked ==
    (OkData /\ call.nsamples >= 1) =>
        /\ old_sample = Value(call.nsamples - 1)
        /\ call.tracked

\* C18: within a session the counters of the rows handed back are strictly
\* increasing in output order, within a call and from one data() call to the
\* next, and samplecount never decreases.
C18_CounterIncreases ==
    [][/\ samplecount' >= samplecount
       /\ (call'.fn = "data" /\ call'.ret = SR_OK /\ ~call'.freed_access) =>
             \A j \in 1..Len(call'.out.rows) :
                 DecimalValue(call'.out.rows[j].counter, 0, 1)
                     > (IF j = 1 THEN printed[call'.o]
                        ELSE DecimalValue(call'.out.rows[j - 1].counter, 0, 1))]_vars

\* a later call of a session handing back two rows or more
C18_Witness ==
    /\ OkData /\ call.pre.converted /\ Len(call.out.rows) >= 2
    /\ printed[call.o] = DecimalValue(call.out.rows[Len(call.out.rows)].counter, 0, 1)

\* C19: event() with SR_DF_END releases everything the session owns: no
\* allocation of the session is left behind, the header text included when
\* the end of the stream comes before any data() call has taken it.
C19_EndReleasesAll ==
    (call.fn = "event" /\ call.arg = SR_DF_END /\ call.ret = SR_OK) =>
        (call.leak = 0 /\ internal[call.o] = NULL)

\* C20: every context data() can run on has unitsize >= 1, so that the
\* division by unitsize and the step of the loop are defined; init() leaves
\* no live context with unitsize 0 for a device without enabled probes.
C20_UnitSizePositive ==
    /\ \A o \in DOMAIN internal : internal[o].st = "live" => internal[o].unitsize >= 1
    /\ (call.fn = "data" /\ call.ret # SR_ERR_ARG /\ ~call.freed_access)
          => call.unitsize >= 1

====
